---- MODULE Spec2Model ----
(***************************************************************************)
(* A model of lab_6_pipeline/pipeline.py: the CorpusManager dataset        *)
(* validation and scan, TextProcessingPipeline.run with the UDPipe         *)
(* analyzer, POSFrequencyPipeline._count_frequencies and the               *)
(* PatternSearchPipeline operations.                                       *)
(*                                                                         *)
(* A file name is a record [pre, suf]: pre is the sequence of decimal      *)
(* digits before the first underscore, suf the rest of the name.  A text   *)
(* is a sequence of tokens; the token "NBSP" stands for the literal        *)
(* substring 'NBSP'.  A file of the directory is [pre, suf, content] and   *)
(* its st_size is the length of its content.                               *)
(***************************************************************************)
EXTENDS Integers, Sequences, FiniteSets, TLC

VARIABLES
    pathKind,      \* what self.path names: "missing", "file" or "dir"
    dir,           \* the entries of the dataset directory
    pc,            \* position of the program
    storage,       \* CorpusManager._storage: insertion-ordered dict, as a sequence
    fault,         \* the exception CorpusManager construction raised, if any
    readFiles,     \* names of the raw files from_raw has read, in the order read
    analyzeCalls,  \* arguments of the calls of the analyzer's analyze
    processedLog,  \* article ids in the order TextProcessingPipeline.run handled them
    doc,           \* the CoNLL-U document from_conllu returns (sentences of UPOS tags)
    posResult,     \* what _count_frequencies returned
    graph,         \* a sentence graph: words with tag, head and relation
    pattern,       \* the (root tag, relation, child tag) searched for
    matchEdge,     \* the edge whose match tree is being built
    treeNode,      \* the TreeNode handed to _add_children
    findResult,    \* what _find_pattern returned
    graphsResult,  \* what _make_graphs returned
    runResult,     \* what PatternSearchPipeline.run returned
    config,        \* the ConfigDTO read from the crawler configuration
    configResult   \* how the construction of Config ended

corpusVars == <<pathKind, dir, pc, storage, fault, readFiles, analyzeCalls, processedLog>>
posVars == <<doc, posResult>>
patVars == <<graph, pattern, matchEdge, treeNode, findResult, graphsResult, runResult>>
cfgVars == <<config, configResult>>
vars == <<corpusVars, posVars, patVars, cfgVars>>

(***************************************************************************)
(* Bounds                                                                  *)
(***************************************************************************)
MaxId == 3
MaxFiles == 6
MaxSentences == 2
MaxWords == 2
MaxNodes == 3
Margin == 2

(***************************************************************************)
(* File names and contents                                                 *)
(***************************************************************************)
MetaSuffix == "_meta.json"
RawSuffix == "_raw.txt"
CleanedSuffix == "_cleaned.txt"
ConlluSuffix == "_udpipe_conllu"

RECURSIVE FormatInt(_)
\* f'{count}': the decimal digits of a positive integer, no leading zero
FormatInt(n) == IF n < 10 THEN <<n>> ELSE FormatInt(n \div 10) \o <<n % 10>>

RECURSIVE ParseInt(_)
\* int(s) of a digit string: leading zeros are accepted
ParseInt(ds) ==
    IF Len(ds) = 0 THEN 0
    ELSE 10 * ParseInt(SubSeq(ds, 1, Len(ds) - 1)) + ds[Len(ds)]

Name(pre, suf) == [pre |-> pre, suf |-> suf]
NameOf(e) == Name(e.pre, e.suf)
File(name, content) == [pre |-> name.pre, suf |-> name.suf, content |-> content]

\* filepath.stat().st_size
StSize(e) == Len(e.content)

\* the prefixes a file of the modelled directory may carry: "1".."MaxId" and "01"
Prefixes == {FormatInt(i) : i \in 1..MaxId} \cup {<<0, 1>>}
RawTexts == {<<>>, <<"a">>, <<"NBSP", "b">>}
MetaTexts == {<<>>, <<"m">>}
CleanedTexts == {<<>>, <<"a">>}

SetupFiles ==
    {File(Name(p, MetaSuffix), c) : p \in Prefixes, c \in MetaTexts}
    \cup {File(Name(p, RawSuffix), c) : p \in Prefixes, c \in RawTexts}
    \cup {File(Name(FormatInt(1), CleanedSuffix), c) : c \in CleanedTexts}

\* writing a file replaces the entry of that name
WriteFile(d, name, content) ==
    {e \in d : NameOf(e) # name} \cup {File(name, content)}

(***************************************************************************)
(* CorpusManager                                                           *)
(***************************************************************************)
NoFault == [type |-> "none", reason |-> "none"]
Raise(type, reason) == [type |-> type, reason |-> reason]

\* names of the entries whose name ends with the suffix
NamesEndingWith(d, suf) == {NameOf(e) : e \in {x \in d : x.suf = suf}}

\* [f'{count}<suffix>' for count in range(1, n + 1)], as a set
Template(n, suf) == {Name(FormatInt(count), suf) : count \in 1..n}

\* a validation without the check for an empty directory
PathFault_NoEmptyCheck(kind, d) ==
    IF kind = "missing" THEN Raise("FileNotFoundError", "path")
    ELSE IF kind # "dir" THEN Raise("NotADirectoryError", "path")
    ELSE NoFault

PathFault(kind, d) ==
    IF kind = "missing" THEN Raise("FileNotFoundError", "path")
    ELSE IF kind # "dir" THEN Raise("NotADirectoryError", "path")
    ELSE IF d = {} THEN Raise("EmptyDirectoryError", "empty_dir")
    ELSE NoFault

\* a validation that compares the two families by their counts alone
FamilyFault_CountOnly(d) ==
    IF Cardinality(NamesEndingWith(d, MetaSuffix)) # Cardinality(NamesEndingWith(d, RawSuffix))
    THEN Raise("InconsistentDatasetError", "count")
    ELSE NoFault

FamilyFault(d) ==
    LET meta == NamesEndingWith(d, MetaSuffix)
        raw == NamesEndingWith(d, RawSuffix)
    IN  IF Cardinality(meta) # Cardinality(raw)
        THEN Raise("InconsistentDatasetError", "count")
        ELSE IF meta # Template(Cardinality(meta), MetaSuffix)
        THEN Raise("InconsistentDatasetError", "meta_ids")
        ELSE IF raw # Template(Cardinality(raw), RawSuffix)
        THEN Raise("InconsistentDatasetError", "raw_ids")
        ELSE NoFault

\* a validation that looks for empty files in the meta and raw families alone
SizeFault_FamiliesOnly(d) ==
    IF \E e \in d : e.suf \in {MetaSuffix, RawSuffix} /\ StSize(e) = 0
    THEN Raise("InconsistentDatasetError", "empty_file")
    ELSE NoFault

\* a validation that looks for empty files among the meta files alone
SizeFault_MetaOnly(d) ==
    IF \E e \in d : e.suf = MetaSuffix /\ StSize(e) = 0
    THEN Raise("InconsistentDatasetError", "empty_file")
    ELSE NoFault

SizeFault(d) ==
    IF \E e \in d : StSize(e) = 0
    THEN Raise("InconsistentDatasetError", "empty_file")
    ELSE NoFault

\* _validate_dataset: the first check that fails raises
ValidateDataset(kind, d) ==
    IF PathFault(kind, d) # NoFault THEN PathFault(kind, d)
    ELSE IF FamilyFault(d) # NoFault THEN FamilyFault(d)
    ELSE SizeFault(d)

\* a constructor that scans whatever the validation found
AfterValidate_AlwaysScan(f) == "scan"

\* __init__: _scan_dataset runs only if _validate_dataset returned
AfterValidate(f) == IF f = NoFault THEN "scan" ELSE "raised"

get_article_id_from_filepath(name) == ParseInt(name.pre)

\* from_raw: an Article with the text of the file and no annotation yet
from_raw(e) == [text |-> e.content, conllu |-> <<>>]

\* a scan that keys the articles from 0
ScanEntry_ZeroBased(e) ==
    [key |-> get_article_id_from_filepath(NameOf(e)) - 1,
     text |-> from_raw(e).text, conllu |-> from_raw(e).conllu]

\* one key: value pair of the dict comprehension of _scan_dataset
ScanEntry(e) ==
    [key |-> get_article_id_from_filepath(NameOf(e)),
     text |-> from_raw(e).text, conllu |-> from_raw(e).conllu]

\* d[key] = value on an insertion-ordered dict
DictSet(s, art) ==
    IF \E i \in 1..Len(s) : s[i].key = art.key
    THEN [i \in 1..Len(s) |-> IF s[i].key = art.key THEN art ELSE s[i]]
    ELSE Append(s, art)

RECURSIVE ScanStorage(_)
\* the dict comprehension over the files in the order glob yields them
ScanStorage(order) ==
    IF Len(order) = 0 THEN <<>>
    ELSE DictSet(ScanStorage(SubSeq(order, 1, Len(order) - 1)), ScanEntry(order[Len(order)]))

\* self.path.glob('*_raw.txt')
Glob(d) == {e \in d : e.suf = RawSuffix}

\* the orders in which the file system may enumerate a set of entries
Enumerations(S) ==
    {f \in [1..Cardinality(S) -> S] : \A i, j \in 1..Cardinality(S) : i # j => f[i] # f[j]}

(***************************************************************************)
(* Actions of the corpus specification                                     *)
(***************************************************************************)
\* the dataset directory gets its entries before the program starts
FsCreate ==
    /\ pc = "setup"
    /\ pathKind = "dir"
    /\ Cardinality(dir) < MaxFiles
    /\ \E f \in SetupFiles :
        /\ \A e \in dir : NameOf(e) # NameOf(f)
        /\ dir' = dir \cup {f}
    /\ UNCHANGED <<pathKind, pc, storage, fault, readFiles, analyzeCalls, processedLog>>
    /\ UNCHANGED <<posVars, patVars, cfgVars>>

Construct ==
    /\ pc \in {"setup", "processed"}
    /\ pc' = "validate"
    /\ storage' = <<>>
    /\ fault' = NoFault
    /\ readFiles' = <<>>
    /\ analyzeCalls' = <<>>
    /\ processedLog' = <<>>
    /\ UNCHANGED <<pathKind, dir>>
    /\ UNCHANGED <<posVars, patVars, cfgVars>>

Validate ==
    /\ pc = "validate"
    /\ fault' = ValidateDataset(pathKind, dir)
    /\ pc' = AfterValidate(fault')
    /\ UNCHANGED <<pathKind, dir, storage, readFiles, analyzeCalls, processedLog>>
    /\ UNCHANGED <<posVars, patVars, cfgVars>>

ScanDataset ==
    /\ pc = "scan"
    /\ \E order \in Enumerations(Glob(dir)) :
        /\ storage' = ScanStorage(order)
        /\ readFiles' = [i \in 1..Len(order) |-> NameOf(order[i])]
    /\ pc' = "ready"
    /\ UNCHANGED <<pathKind, dir, fault, analyzeCalls, processedLog>>
    /\ UNCHANGED <<posVars, patVars, cfgVars>>

(***************************************************************************)
(* UDPipeAnalyzer and TextProcessingPipeline                               *)
(***************************************************************************)
\* f'{self._analyzer(text)._.conll_str}\n': the markup of one text
Annotate(text) == <<"conll">> \o text \o <<"\n">>

\* UDPipeAnalyzer.analyze: one document per text, in the order of the texts
Analyze(texts) == [i \in 1..Len(texts) |-> Annotate(texts[i])]

\* an iteration over the articles from the last to the first
ArticleValues_Reversed(s) == [i \in 1..Len(s) |-> s[Len(s) + 1 - i]]

\* self.corpus_manager.get_articles().values()
ArticleValues(s) == s

\* a loop that attaches the first document to every article
ConlluAt_First(conllu, idx) == conllu[1]

\* conllu[idx] of the enumerate loop (indices from 1 here)
ConlluAt(conllu, idx) == conllu[idx]

\* article.text.replace('NBSP', '')
ReplaceNBSP(text) == SelectSeq(text, LAMBDA tok : tok # "NBSP")

\* the loop body of run for the article at position idx
ProcessArticle(art, conllu, idx) ==
    [art EXCEPT !.text = ReplaceNBSP(art.text), !.conllu = ConlluAt(conllu, idx)]

ProcessAll(arts, conllu) ==
    [idx \in 1..Len(arts) |-> ProcessArticle(arts[idx], conllu, idx)]

RECURSIVE WriteArtifacts(_, _)
\* to_cleaned and to_conllu of every processed article, in loop order
WriteArtifacts(d, arts) ==
    IF Len(arts) = 0 THEN d
    ELSE LET art == arts[Len(arts)]
             before == WriteArtifacts(d, SubSeq(arts, 1, Len(arts) - 1))
             cleaned == WriteFile(before, Name(FormatInt(art.key), CleanedSuffix), art.text)
         IN  WriteFile(cleaned, Name(FormatInt(art.key), ConlluSuffix), art.conllu)

TextProcessingRun ==
    /\ pc = "ready"
    /\ LET arts == ArticleValues(storage)
           texts == [i \in 1..Len(arts) |-> arts[i].text]
           conllu == Analyze(texts)
           done == ProcessAll(arts, conllu)
       IN  /\ analyzeCalls' = Append(analyzeCalls, texts)
           /\ storage' = [i \in 1..Len(storage) |->
                            IF \E j \in 1..Len(done) : done[j].key = storage[i].key
                            THEN (CHOOSE a \in {done[j] : j \in 1..Len(done)} :
                                      a.key = storage[i].key)
                            ELSE storage[i]]
           /\ dir' = WriteArtifacts(dir, done)
           /\ processedLog' = [i \in 1..Len(done) |-> done[i].key]
    /\ pc' = "processed"
    /\ UNCHANGED <<pathKind, fault, readFiles>>
    /\ UNCHANGED <<posVars, patVars, cfgVars>>

(***************************************************************************)
(* POSFrequencyPipeline._count_frequencies                                 *)
(***************************************************************************)
Tags == {"NOUN", "VERB", "ADV"}

\* a sentence is the sequence of the UPOS tags of its words
SentencesOver == UNION {[1..n -> Tags] : n \in 1..MaxWords}
Docs == UNION {[1..n -> SentencesOver] : n \in 0..MaxSentences}

\* {pos: upos.count(pos) for pos in upos}
SentenceFrequencies(upos) ==
    [pos \in {upos[i] : i \in 1..Len(upos)} |->
        Cardinality({i \in 1..Len(upos) : upos[i] = pos})]

\* one pass of the loop over the sentences: the dict is assigned anew
FrequenciesStep(acc, upos) == SentenceFrequencies(upos)

RECURSIVE FrequenciesLoop(_, _)
FrequenciesLoop(acc, sentences) ==
    IF Len(sentences) = 0 THEN acc
    ELSE FrequenciesLoop(FrequenciesStep(acc, Head(sentences)), Tail(sentences))

\* from_conllu raises EmptyFileError on a file of size 0
CountFrequencies(d) ==
    IF Len(d) = 0
    THEN [state |-> "EmptyFileError", freq |-> <<>>]
    ELSE [state |-> "returned", freq |-> FrequenciesLoop(<<>>, d)]

CountFrequenciesCall ==
    /\ posResult.state = "unset"
    /\ posResult' = CountFrequencies(doc)
    /\ UNCHANGED <<doc, corpusVars, patVars, cfgVars>>

(***************************************************************************)
(* PatternSearchPipeline                                                   *)
(***************************************************************************)
Rels == {"nsubj", "advmod"}

\* a Python None
None == [kind |-> "None", matches |-> {}]
Unset == [kind |-> "unset", matches |-> {}]

\* words [upos, head, deprel] of a sentence; word i has token id i
Words(n) == [1..n -> [upos : Tags, head : 0..n, deprel : Rels \cup {"root"}]]

RECURSIVE ReachesRoot(_, _, _)
ReachesRoot(g, i, fuel) ==
    IF g[i].head = 0 THEN TRUE
    ELSE IF fuel = 0 THEN FALSE
    ELSE ReachesRoot(g, g[i].head, fuel - 1)

\* a well-formed sentence: one root, every other word below it
IsTree(g) ==
    /\ Cardinality({i \in 1..Len(g) : g[i].head = 0}) = 1
    /\ \A i \in 1..Len(g) : (g[i].head = 0) <=> (g[i].deprel = "root")
    /\ \A i \in 1..Len(g) : ReachesRoot(g, i, Len(g))

Sentences == UNION {{g \in Words(n) : IsTree(g)} : n \in 1..MaxNodes}
Patterns == Tags \X Rels \X Tags

\* the edges head -> dependent of a sentence
Edges(g) == {<<g[i].head, i>> : i \in {j \in 1..Len(g) : g[j].head # 0}}

\* the bodies of these four methods are their docstrings: each returns None
MakeGraphs(d) == None
FindPattern(doc_graphs) == None
AddChildren(g, node_id, tree_node) == tree_node
PatternRun(d) == None

MakeGraphsCall ==
    /\ graphsResult = Unset /\ findResult = Unset /\ runResult = Unset /\ matchEdge = <<>>
    /\ graphsResult' = MakeGraphs(<<graph>>)
    /\ UNCHANGED <<graph, pattern, matchEdge, treeNode, findResult, runResult>>
    /\ UNCHANGED <<corpusVars, posVars, cfgVars>>

FindPatternCall ==
    /\ graphsResult = Unset /\ findResult = Unset /\ runResult = Unset /\ matchEdge = <<>>
    /\ findResult' = FindPattern(<<graph>>)
    /\ UNCHANGED <<graph, pattern, matchEdge, treeNode, graphsResult, runResult>>
    /\ UNCHANGED <<corpusVars, posVars, cfgVars>>

\* _add_children on the TreeNode of the dependent c of an edge h -> c
AddChildrenCall ==
    /\ graphsResult = Unset /\ findResult = Unset /\ runResult = Unset /\ matchEdge = <<>>
    /\ \E e \in Edges(graph) :
        /\ matchEdge' = e
        /\ treeNode' = AddChildren(graph, e[2], [id |-> e[2], nested |-> {}])
    /\ UNCHANGED <<graph, pattern, findResult, graphsResult, runResult>>
    /\ UNCHANGED <<corpusVars, posVars, cfgVars>>

PatternRunCall ==
    /\ graphsResult = Unset /\ findResult = Unset /\ runResult = Unset /\ matchEdge = <<>>
    /\ runResult' = PatternRun(<<graph>>)
    /\ UNCHANGED <<graph, pattern, matchEdge, treeNode, findResult, graphsResult>>
    /\ UNCHANGED <<corpusVars, posVars, cfgVars>>

(***************************************************************************)
(* Config (lab_5_scraper/scraper.py)                                       *)
(*                                                                         *)
(* A Python value is a record [type, val]; a seed url is a str that does   *)
(* (own) or does not start with the address of the site.                   *)
(***************************************************************************)
ArticleLimit == 150
TimeoutRange == 61

PyInt(n) == [type |-> "int", val |-> n]
PyBool(b) == [type |-> "bool", val |-> b]
PyStr == [type |-> "str", val |-> 0]

OwnUrl == [type |-> "str", own |-> TRUE]
ForeignUrl == [type |-> "str", own |-> FALSE]
NotAUrl == [type |-> "int", own |-> FALSE]

SeedUrlValues ==
    {[type |-> "list", items |-> its] :
        its \in {<<>>, <<OwnUrl>>, <<OwnUrl, ForeignUrl>>, <<OwnUrl, NotAUrl>>}}
    \cup {[type |-> "str", items |-> <<>>]}

NumArticlesValues ==
    {PyInt(n) : n \in (0 - Margin)..Margin}
    \cup {PyInt(n) : n \in (ArticleLimit - Margin)..(ArticleLimit + Margin)}
    \cup {PyBool(1), PyStr}

TimeoutValues == {PyInt(n) : n \in {0 - 1, 0, 5, TimeoutRange - 1, TimeoutRange}} \cup {PyStr}

\* the values json.load may hand to ConfigDTO
ConfigValues ==
    [seed_urls : SeedUrlValues,
     total_articles : NumArticlesValues,
     headers : {"dict", "list"},
     encoding : {"str", "int"},
     timeout : TimeoutValues,
     should_verify_certificate : {"bool", "int"},
     headless_mode : {"bool", "str"}]

\* isinstance(v, int): a bool is an int
IsInstanceInt(v) == v.type \in {"int", "bool"}

SeedUrlFault(urls) ==
    IF urls.type # "list" \/ \E i \in 1..Len(urls.items) : urls.items[i].type # "str"
    THEN "IncorrectSeedURLError"
    ELSE IF \E i \in 1..Len(urls.items) : ~urls.items[i].own
    THEN "IncorrectSeedURLError"
    ELSE "ok"

NumArticlesFault(n) ==
    IF ~IsInstanceInt(n) \/ n.type = "bool" \/ n.val < 0
    THEN "IncorrectNumberOfArticlesError"
    ELSE IF n.val > ArticleLimit
    THEN "NumberOfArticlesOutOfRangeError"
    ELSE "ok"

\* self._timeout not in range(61)
TimeoutFault(t) ==
    IF ~(IsInstanceInt(t) /\ t.val \in 0..(TimeoutRange - 1))
    THEN "IncorrectTimeoutError"
    ELSE "ok"

\* _validate_config_content: the first check that fails raises
ValidateConfigContent(c) ==
    IF SeedUrlFault(c.seed_urls) # "ok" THEN SeedUrlFault(c.seed_urls)
    ELSE IF NumArticlesFault(c.total_articles) # "ok" THEN NumArticlesFault(c.total_articles)
    ELSE IF c.headers # "dict" THEN "IncorrectHeadersError"
    ELSE IF c.encoding # "str" THEN "IncorrectEncodingError"
    ELSE IF TimeoutFault(c.timeout) # "ok" THEN TimeoutFault(c.timeout)
    ELSE IF c.should_verify_certificate # "bool" THEN "IncorrectVerifyError"
    ELSE IF c.headless_mode # "bool" THEN "IncorrectVerifyError"
    ELSE "ok"

\* Config.__init__
ConfigInit ==
    /\ configResult = "unset"
    /\ configResult' = ValidateConfigContent(config)
    /\ UNCHANGED <<config, corpusVars, posVars, patVars>>

(***************************************************************************)
(* Specifications                                                          *)
(***************************************************************************)
CorpusIdle ==
    /\ pathKind = "dir" /\ dir = {} /\ pc = "setup" /\ storage = <<>>
    /\ fault = NoFault /\ readFiles = <<>> /\ analyzeCalls = <<>> /\ processedLog = <<>>

POSIdle == doc = <<>> /\ posResult = [state |-> "unset", freq |-> <<>>]

PatternIdle ==
    /\ graph = <<>> /\ pattern = <<"VERB", "nsubj", "NOUN">> /\ matchEdge = <<>>
    /\ treeNode = [id |-> 0, nested |-> {}]
    /\ findResult = Unset /\ graphsResult = Unset /\ runResult = Unset

ConfigIdle ==
    /\ config = [seed_urls |-> [type |-> "list", items |-> <<>>], total_articles |-> PyInt(1),
                 headers |-> "dict", encoding |-> "str", timeout |-> PyInt(5),
                 should_verify_certificate |-> "bool", headless_mode |-> "bool"]
    /\ configResult = "unset"

\* the corpus: CorpusManager construction and TextProcessingPipeline.run
Init ==
    /\ pathKind \in {"missing", "file", "dir"}
    /\ dir = {} /\ pc = "setup" /\ storage = <<>>
    /\ fault = NoFault /\ readFiles = <<>> /\ analyzeCalls = <<>> /\ processedLog = <<>>
    /\ POSIdle
    /\ PatternIdle
    /\ ConfigIdle

Next ==
    \/ FsCreate
    \/ Construct
    \/ Validate
    \/ ScanDataset
    \/ TextProcessingRun

Spec == Init /\ [][Next]_vars

\* _count_frequencies on every document within the bounds
InitPOS ==
    /\ CorpusIdle
    /\ PatternIdle
    /\ ConfigIdle
    /\ doc \in Docs
    /\ posResult = [state |-> "unset", freq |-> <<>>]

NextPOS == CountFrequenciesCall

SpecPOS == InitPOS /\ [][NextPOS]_vars

\* the pattern search on every sentence and pattern within the bounds
InitPattern ==
    /\ CorpusIdle
    /\ POSIdle
    /\ ConfigIdle
    /\ graph \in Sentences
    /\ pattern \in Patterns
    /\ matchEdge = <<>>
    /\ treeNode = [id |-> 0, nested |-> {}]
    /\ findResult = Unset /\ graphsResult = Unset /\ runResult = Unset

NextPattern ==
    \/ MakeGraphsCall
    \/ FindPatternCall
    \/ AddChildrenCall
    \/ PatternRunCall

SpecPattern == InitPattern /\ [][NextPattern]_vars

\* the construction of Config on every configuration within the bounds
InitConfig ==
    /\ CorpusIdle
    /\ POSIdle
    /\ PatternIdle
    /\ config \in ConfigValues
    /\ configResult = "unset"

NextConfig == ConfigInit

SpecConfig == InitConfig /\ [][NextConfig]_vars

(***************************************************************************)
(* Properties                                                              *)
(***************************************************************************)
MetaFamily == {e \in dir : e.suf = MetaSuffix}
RawFamily == {e \in dir : e.suf = RawSuffix}

\* the prefixes of a family are exactly "1", ..., "count"
FamilyExact(F) == {e.pre : e \in F} = {FormatInt(i) : i \in 1..Cardinality(F)}

FamiliesConsistent ==
    /\ Cardinality(MetaFamily) = Cardinality(RawFamily)
    /\ FamilyExact(MetaFamily)
    /\ FamilyExact(RawFamily)

\* _validate_dataset has run and the directory is as it saw it
Validated == pc \in {"scan", "ready", "raised"}

IdCountReasons == {"count", "meta_ids", "raw_ids"}

\* C1: over an existing, non-empty directory the construction raises
\* InconsistentDatasetError when the counts of the meta and raw names differ or
\* when the names of either family are not exactly 1_<suffix> .. count_<suffix>,
\* and raises no count or id fault when both families are exactly 1..N.
C1_IdCountFault ==
    (Validated /\ pathKind = "dir" /\ dir # {}) =>
        /\ (~FamiliesConsistent) =>
              (fault.type = "InconsistentDatasetError" /\ fault.reason \in IdCountReasons)
        /\ FamiliesConsistent => fault.reason \notin IdCountReasons

\* a gap in the raw ids while the two counts are equal
C1_Witness ==
    /\ pc = "raised"
    /\ Cardinality(MetaFamily) = Cardinality(RawFamily)
    /\ Cardinality(RawFamily) = 2
    /\ FamilyExact(MetaFamily)
    /\ {e.pre : e \in RawFamily} = {FormatInt(1), FormatInt(3)}
    /\ fault = Raise("InconsistentDatasetError", "raw_ids")

\* C2: when the two families are consistent and some meta or raw file has
\* length zero, the construction raises InconsistentDatasetError.
C2_EmptyFileFault ==
    (Validated /\ pathKind = "dir" /\ FamiliesConsistent
        /\ \E e \in MetaFamily \cup RawFamily : Len(e.content) = 0)
    => fault.type = "InconsistentDatasetError"

\* an empty raw file beside meta files that all have content
C2_Witness ==
    /\ pc = "raised"
    /\ FamiliesConsistent
    /\ \E e \in RawFamily : Len(e.content) = 0
    /\ \A e \in MetaFamily : Len(e.content) > 0
    /\ fault = Raise("InconsistentDatasetError", "empty_file")

\* C3: a missing path raises FileNotFoundError, a path that is no directory
\* NotADirectoryError and a directory without entries EmptyDirectoryError,
\* whatever the later checks would have found.
C3_PathFaults ==
    Validated =>
        /\ pathKind = "missing" => fault.type = "FileNotFoundError"
        /\ pathKind = "file" => fault.type = "NotADirectoryError"
        /\ (pathKind = "dir" /\ dir = {}) => fault.type = "EmptyDirectoryError"

C3_Witness ==
    /\ pc = "raised" /\ pathKind = "dir" /\ dir = {}
    /\ fault.type = "EmptyDirectoryError"

\* C4: after the construction over a valid corpus of N articles the keys of
\* get_articles() are exactly 1..N, one entry per raw file, each holding the
\* text of the raw file whose name starts with its key.
C4_KeysAreOneToN ==
    pc = "ready" =>
        /\ {storage[i].key : i \in 1..Len(storage)} = 1..Cardinality(RawFamily)
        /\ Len(storage) = Cardinality(RawFamily)
        /\ \A e \in RawFamily : \E i \in 1..Len(storage) :
              storage[i].key = ParseInt(e.pre) /\ storage[i].text = e.content

C4_Witness == pc = "ready" /\ Len(storage) = 3

\* C5: the storage is filled and raw files are read only after the validation
\* has passed; once a fault is raised the storage is empty, no raw file has
\* been read and no CorpusManager is returned.
C5_NoPartialCorpus ==
    /\ (storage # <<>> \/ readFiles # <<>>) =>
          (fault = NoFault /\ pc \in {"ready", "processed"})
    /\ pc \in {"scan", "ready", "processed"} => fault = NoFault
    /\ fault # NoFault => (pc = "raised" /\ storage = <<>> /\ readFiles = <<>>)

\* a fault raised over a directory that holds raw files
C5_Witness ==
    /\ pc = "raised" /\ fault.type = "InconsistentDatasetError"
    /\ RawFamily # {} /\ storage = <<>> /\ readFiles = <<>>

\* the text of the raw file of an article id
RawTextOf(id) == (CHOOSE e \in RawFamily : e.pre = FormatInt(id)).content
ConlluFileOf(id) ==
    {e.content : e \in {x \in dir : x.pre = FormatInt(id) /\ x.suf = ConlluSuffix}}

\* C6: run calls analyze once, with the texts in the order the corpus iterates,
\* and the document attached to and persisted for the i-th article is the i-th
\* result of that call, which annotates that article's own raw text.
C6_BatchAlignment ==
    pc = "processed" =>
        /\ Len(analyzeCalls) = 1
        /\ analyzeCalls[1] = [i \in 1..Len(storage) |-> RawTextOf(storage[i].key)]
        /\ \A i \in 1..Len(storage) :
              /\ storage[i].conllu = Analyze(analyzeCalls[1])[i]
              /\ storage[i].conllu = Annotate(RawTextOf(storage[i].key))
              /\ ConlluFileOf(storage[i].key) = {storage[i].conllu}

\* two articles with different texts, processed
C6_Witness ==
    /\ pc = "processed" /\ Len(storage) >= 2
    /\ storage[1].conllu # storage[2].conllu

Ascending(ids) == ids = [i \in 1..Len(ids) |-> i]

\* C7 as stated: the mapping is ordered by id and the articles are processed
\* in ascending id order, whatever the order of the file-system enumeration.
C7_AscendingIdOrder ==
    /\ pc \in {"ready", "processed"} => Ascending([i \in 1..Len(storage) |-> storage[i].key])
    /\ pc = "processed" => Ascending(processedLog)

\* C7 amended: the mapping holds the articles in the order in which the file
\* system enumerated the raw files, and run processes every article once, in
\* that same order.
C7_EnumerationOrder ==
    /\ pc \in {"ready", "processed"} =>
          [i \in 1..Len(storage) |-> storage[i].key]
              = [i \in 1..Len(readFiles) |-> ParseInt(readFiles[i].pre)]
    /\ pc = "processed" =>
          /\ processedLog = [i \in 1..Len(storage) |-> storage[i].key]
          /\ Len(processedLog) = Cardinality(RawFamily)
          /\ {processedLog[i] : i \in 1..Len(processedLog)} = 1..Cardinality(RawFamily)

\* articles 2 and 1 processed in that order
C7_Witness == pc = "processed" /\ processedLog = <<2, 1>>

\* the places (sentence, word) of a document
Places(d) == UNION {{<<sn, w>> : w \in 1..Len(d[sn])} : sn \in 1..Len(d)}
Occurrences(d, tag) == Cardinality({p \in Places(d) : d[p[1]][p[2]] = tag})

\* C8: the histogram of a document maps every POS tag of the document to the
\* number of its occurrences over all words of all sentences.
C8_WholeDocumentHistogram ==
    posResult.state = "returned" =>
        /\ DOMAIN posResult.freq = {doc[p[1]][p[2]] : p \in Places(doc)}
        /\ \A tag \in DOMAIN posResult.freq : posResult.freq[tag] = Occurrences(doc, tag)

\* the edges of a sentence that have the shape of the pattern
Matching(g, pat) ==
    {e \in Edges(g) :
        g[e[1]].upos = pat[1] /\ g[e[2]].deprel = pat[2] /\ g[e[2]].upos = pat[3]}

\* C9: the pattern search reports a match for an edge h -> c exactly when the
\* tag of h, the label of the edge and the tag of c are those of the pattern;
\* a sentence without such an edge gives an empty list of matches.
C9_MatchIffEdge ==
    findResult # Unset =>
        /\ findResult.kind = "dict"
        /\ findResult.matches = Matching(graph, pattern)

RECURSIVE IsUnder(_, _, _, _)
\* word k is c or is governed, directly or not, by c
IsUnder(g, k, c, fuel) ==
    IF k = c THEN TRUE
    ELSE IF g[k].head = 0 \/ fuel = 0 THEN FALSE
    ELSE IsUnder(g, g[k].head, c, fuel - 1)

\* C10: the tree node of the dependent c of a matched edge h -> c holds, nested
\* head over dependent, every word that c governs directly or transitively.
C10_FullSubtree ==
    matchEdge # <<>> =>
        /\ treeNode.id = matchEdge[2]
        /\ treeNode.nested =
              {e \in Edges(graph) : IsUnder(graph, e[1], matchEdge[2], Len(graph))}

\* the entries of the directory that belong to neither family
OtherEntries == dir \ (MetaFamily \cup RawFamily)

\* C12: the zero-length check ranges over every entry: with consistent,
\* non-empty meta and raw families, an entry of another kind with size 0 makes
\* the construction raise InconsistentDatasetError, while entries of another
\* kind never decide the count and id checks.
C12_EveryEntrySized ==
    (Validated /\ pathKind = "dir" /\ OtherEntries # {}) =>
        /\ (FamiliesConsistent /\ MetaFamily # {}
               /\ \E e \in OtherEntries : Len(e.content) = 0)
           => fault = Raise("InconsistentDatasetError", "empty_file")
        /\ (FamiliesConsistent /\ \A e \in dir : Len(e.content) > 0) => fault = NoFault
        /\ (fault.reason \in IdCountReasons) <=> ~FamiliesConsistent

\* an empty cleaned file beside meta and raw files that all have content
C12_Witness ==
    /\ pc = "raised"
    /\ FamiliesConsistent /\ MetaFamily # {}
    /\ \A e \in MetaFamily \cup RawFamily : Len(e.content) > 0
    /\ \E e \in OtherEntries : e.suf = CleanedSuffix /\ Len(e.content) = 0
    /\ fault = Raise("InconsistentDatasetError", "empty_file")

\* every field but the number of articles is valid
OtherFieldsValid ==
    /\ config.seed_urls.type = "list"
    /\ \A i \in 1..Len(config.seed_urls.items) :
          config.seed_urls.items[i].type = "str" /\ config.seed_urls.items[i].own
    /\ config.headers = "dict"
    /\ config.encoding = "str"
    /\ config.timeout.type = "int" /\ config.timeout.val \in 1..59
    /\ config.should_verify_certificate = "bool"
    /\ config.headless_mode = "bool"

NumberOfArticlesErrors == {"NumberOfArticlesOutOfRangeError", "IncorrectNumberOfArticlesError"}

\* C11: with every other field valid, Config is constructed without error only
\* when the number of articles is an integer in 1..150, and every integer
\* outside that range is rejected with a number-of-articles error.
C11_ArticleRange ==
    (configResult # "unset" /\ OtherFieldsValid /\ config.total_articles.type = "int") =>
        /\ (configResult = "ok") <=> (config.total_articles.val \in 1..ArticleLimit)
        /\ (config.total_articles.val \notin 1..ArticleLimit)
              => configResult \in NumberOfArticlesErrors

====
